---- MODULE Spec2Model ----
(***************************************************************************)
(* Model of synapse/util/metrics.py: the Measure context manager, the      *)
(* seven block counters it feeds, and the measure_func decorator.          *)
(*                                                                         *)
(* Numbers.  Python numbers that may be fractional (seconds) are kept in   *)
(* thousandths: the value x is stored as x * MsPerSecond.  An integer the  *)
(* code passes to a counter (a count, a number of milliseconds) is Num(n); *)
(* the code's "/ 1000." is DivideBy1000.  CPU times are read from the      *)
(* context already as (fractional) seconds, i.e. in thousandths.           *)
(*                                                                         *)
(* Objects.  A Measure lives from its construction to the end of its with  *)
(* statement; after that nothing refers to it and its slots are forgotten  *)
(* (Released).  The context block b creates has the identity               *)
(* OwnContext(b).  last holds the arguments and the result of the latest   *)
(* __enter__ or __exit__; work and attributed record, apart from the       *)
(* Measure's own snapshots, what the clock and the contexts did.           *)
(***************************************************************************)
EXTENDS Integers, Sequences, FiniteSets, TLC

\* ---- bounds of the model ------------------------------------------------
\* Measure objects a run may construct
MaxBlocks == 1
\* logical tasks the scheduler has given a context of their own
MaxTasks == 1
\* the last reading of the clock, in milliseconds
MaxClock == 1
\* pieces of work charged to contexts
MaxGrowth == 1

\* ---- values -------------------------------------------------------------
MsPerSecond == 1000

None == 0

Unset == 0 - 1

TaskContexts == 1..MaxTasks
Names == {"a", "b"}
\* the name measure_func was given when the measured method was wrapped
WrappedNames == {"a"}
ExcClasses == {"RuntimeError", "CancelledError"}
Results == {"r"}

\* a piece of work, by what it adds to the running totals of the context it
\* is charged to: CPU time (thousandths of a second), or one database
\* transaction with its duration and its wait for a connection (ms)
CpuWork == [ru_utime |-> 2, ru_stime |-> 1, db_txn_count |-> 0,
            db_txn_duration_ms |-> 0, db_sched_duration_ms |-> 0]
DbWork == [ru_utime |-> 0, ru_stime |-> 0, db_txn_count |-> 1,
           db_txn_duration_ms |-> 4, db_sched_duration_ms |-> 3]
WorkKinds == {CpuWork, DbWork}

\* exc_type as the with statement passes it: None, or the class of the failure
NoExc == [kind |-> "none", cls |-> "None"]
ClassOf(c) == [kind |-> "class", cls |-> c]
InstanceOf(c) == [kind |-> "instance", cls |-> c]
BodyFailures == {InstanceOf("RuntimeError")}
TypeOf(f) == IF f = NoExc THEN NoExc ELSE ClassOf(f.cls)

Num(n) == n * MsPerSecond
DivideBy1000(x) == x \div 1000

VARIABLES
    clock,                   \* clock.time_msec()
    current,                 \* LoggingContext.current_context(); None when absent
    contexts,                \* the LoggingContext objects
    measure,                 \* the Measure objects and their slots
    block_counter,           \* block_count{block_name}
    block_timer,             \* block_time_seconds{block_name}
    block_ru_utime,          \* block_ru_utime_seconds{block_name}
    block_ru_stime,          \* block_ru_stime_seconds{block_name}
    block_db_txn_count,      \* block_db_txn_count{block_name}
    block_db_txn_duration,   \* block_db_txn_duration_seconds{block_name}
    block_db_sched_duration, \* block_db_sched_duration_seconds{block_name}
    warnings,                \* what logger.warn was called with, in order
    calls,                   \* per block: where the measured_func that made it stands
    work,                    \* per open block: what its context and the clock did since __enter__
    last,                    \* the last operation on a block: its inputs and how it ended
    attributed               \* per name: what the released blocks' own contexts and the clock did

counterVars == <<block_counter, block_timer, block_ru_utime, block_ru_stime,
                 block_db_txn_count, block_db_txn_duration, block_db_sched_duration>>
vars == <<clock, current, contexts, measure, block_counter, block_timer,
          block_ru_utime, block_ru_stime, block_db_txn_count,
          block_db_txn_duration, block_db_sched_duration, warnings, calls,
          work, last, attributed>>

\* ---- collaborators ------------------------------------------------------
\* a LoggingContext is truthy, the absent (sentinel) context is falsy
Truthy(context) == context # None

UnusedContext == [state |-> "unused", name |-> "", previous |-> None, exits |-> 0,
                  ru_utime |-> 0, ru_stime |-> 0, db_txn_count |-> 0,
                  db_txn_duration_ms |-> 0, db_sched_duration_ms |-> 0]

\* LoggingContext(name) followed by its __enter__: pushed over the current one
LoggingContextEnter(ctxs, c, name, cur) ==
    [ctxs EXCEPT ![c] = [UnusedContext EXCEPT !.state = "entered", !.name = name,
                                              !.previous = cur]]

\* LoggingContext.__exit__: popped, the one it was pushed over is active again
LoggingContextExit(ctxs, c) ==
    [ctxs EXCEPT ![c] = [@ EXCEPT !.state = "exited", !.exits = @ + 1]]

BlockIds == DOMAIN measure
ContextIds == DOMAIN contexts

\* the identity of the LoggingContext("Measure") that block b creates
OwnContext(b) == MaxTasks + b

\* context.get_resource_usage()
get_resource_usage(ctx) == <<ctx.ru_utime, ctx.ru_stime>>

\* counter.inc_by(amount, name) and counter.inc(name)
inc_by(counter, amount, name) == [counter EXCEPT ![name] = @ + amount]
inc(counter, name) == inc_by(counter, Num(1), name)

\* pieces of work charged so far: each adds one to ru_stime or to db_txn_count
RECURSIVE GrowthUpTo(_)
GrowthUpTo(c) == IF c = 0 THEN 0
                 ELSE contexts[c].ru_stime + contexts[c].db_txn_count + GrowthUpTo(c - 1)
TotalGrowth == GrowthUpTo(Cardinality(ContextIds))

\* ---- Measure ------------------------------------------------------------
NoMeasure == [pc |-> "none", name |-> "", start_context |-> None, start |-> Unset,
              created_context |-> FALSE, ru_utime |-> Unset, ru_stime |-> Unset,
              db_txn_count |-> Unset, db_txn_duration_ms |-> Unset,
              db_sched_duration_ms |-> Unset]

\* a Measure whose with statement has ended: nothing refers to it any more
Released == [NoMeasure EXCEPT !.pc = "exited"]

NoOutcome == [kind |-> "none", v |-> ""]

NoLast == [op |-> "none", block |-> 0, name |-> "", context |-> None,
           start_context |-> None, created_context |-> FALSE, exc |-> NoExc,
           path |-> "none", duration |-> 0, returned |-> FALSE, raised |-> NoExc,
           propagated |-> NoExc, suspended |-> FALSE, outcome |-> NoOutcome,
           delivered |-> NoOutcome]

NoWork == [ru_utime |-> 0, ru_stime |-> 0, db_txn_count |-> 0,
           db_txn_duration_ms |-> 0, db_sched_duration_ms |-> 0, ticks |-> 0]

NoAttribution == [blocks |-> 0, ticks |-> 0, ru_utime |-> 0, ru_stime |-> 0,
                  db_txn_count |-> 0, db_txn_duration_ms |-> 0,
                  db_sched_duration_ms |-> 0]

NoCall == [pc |-> "idle", blocks |-> {}]

OwnedByCall(b) == calls[b].pc # "idle"

\* Measure.__init__
MeasureInit(name) == [NoMeasure EXCEPT !.pc = "constructed", !.name = name]

\* no block yet; every task has its context, and none of them is active
InitWith(blocks) ==
    /\ clock = 0
    /\ current = None
    /\ contexts = [c \in 1..(MaxTasks + blocks) |->
                      IF c \in TaskContexts
                      THEN LoggingContextEnter([d \in {c} |-> UnusedContext], c, "task", None)[c]
                      ELSE UnusedContext]
    /\ measure = [b \in 1..blocks |-> NoMeasure]
    /\ block_counter = [n \in Names |-> 0]
    /\ block_timer = [n \in Names |-> 0]
    /\ block_ru_utime = [n \in Names |-> 0]
    /\ block_ru_stime = [n \in Names |-> 0]
    /\ block_db_txn_count = [n \in Names |-> 0]
    /\ block_db_txn_duration = [n \in Names |-> 0]
    /\ block_db_sched_duration = [n \in Names |-> 0]
    /\ warnings = <<>>
    /\ calls = [b \in 1..blocks |-> NoCall]
    /\ work = [b \in 1..blocks |-> NoWork]
    /\ last = NoLast
    /\ attributed = [n \in Names |-> NoAttribution]

Init == InitWith(MaxBlocks)


\* ---- the environment: clock, scheduler, the work inside the blocks -------
Open(b) == measure[b].pc = "entered"

\* the clock advances by one millisecond
Tick ==
    /\ clock < MaxClock
    /\ clock' = clock + 1
    /\ work' = [b \in BlockIds |->
                   IF Open(b) THEN [work[b] EXCEPT !.ticks = @ + 1] ELSE work[b]]
    /\ last' = NoLast
    /\ UNCHANGED <<current, contexts, measure, counterVars, warnings, calls, attributed>>

\* the active context is switched at a suspension point: to another task's
\* context, or to none (whether rightly or by a propagation bug)
SwitchContext(c) ==
    /\ c # current
    /\ c # None => contexts[c].state = "entered"
    /\ current' = c
    /\ last' = NoLast
    /\ UNCHANGED <<clock, contexts, measure, counterVars, warnings, calls, work, attributed>>

\* a piece of work is charged to the active context: its running totals grow
Charge(r, w) ==
    [r EXCEPT !.ru_utime = @ + w.ru_utime, !.ru_stime = @ + w.ru_stime,
              !.db_txn_count = @ + w.db_txn_count,
              !.db_txn_duration_ms = @ + w.db_txn_duration_ms,
              !.db_sched_duration_ms = @ + w.db_sched_duration_ms]

Grow(w) ==
    /\ Truthy(current)
    /\ TotalGrowth < MaxGrowth
    /\ contexts' = [contexts EXCEPT ![current] = Charge(@, w)]
    /\ work' = [b \in BlockIds |->
                   IF Open(b) /\ measure[b].start_context = current
                   THEN Charge(work[b], w) ELSE work[b]]
    /\ last' = NoLast
    /\ UNCHANGED <<clock, current, measure, counterVars, warnings, calls, attributed>>

\* ---- Measure.__enter__ --------------------------------------------------
\* the context the block starts in: the active one, or a new one it creates
\* faulty variant: a context is created whether or not one is active
CreatesContext_Always(found) == TRUE

CreatesContext(found) == ~Truthy(found)

Snapshot(m, ctx) ==
    [m EXCEPT !.ru_utime = get_resource_usage(ctx)[1],
              !.ru_stime = get_resource_usage(ctx)[2],
              !.db_txn_count = ctx.db_txn_count,
              !.db_txn_duration_ms = ctx.db_txn_duration_ms,
              !.db_sched_duration_ms = ctx.db_sched_duration_ms]

EnterEffect(b, m) ==
    LET found == current
        create == CreatesContext(found)
        c == IF create THEN OwnContext(b) ELSE found
        ctxs == IF create THEN LoggingContextEnter(contexts, c, "Measure", current)
                ELSE contexts
        m1 == [m EXCEPT !.pc = "entered", !.start = clock, !.start_context = c,
                        !.created_context = IF create THEN TRUE ELSE @]
    IN /\ contexts' = ctxs
       /\ current' = c
       /\ measure' = [measure EXCEPT ![b] = Snapshot(m1, ctxs[c])]
       /\ work' = [work EXCEPT ![b] = NoWork]
       /\ last' = [NoLast EXCEPT !.op = "enter", !.block = b, !.name = m.name,
                                 !.context = found, !.start_context = c,
                                 !.created_context = measure'[b].created_context]

\* ---- Measure.__exit__ ---------------------------------------------------
\* faulty variant: issubclass(exc_type, Exception), true of every failure's class
IsInstanceOfException_Subclass(x) == x.kind = "class"

\* isinstance(exc_type, Exception): exc_type is None or a class, never an
\* instance of Exception
IsInstanceOfException(x) == x.kind = "instance"

\* faulty variant: the early return taken whenever the wrapped work failed
ExitReturnsEarly_OnFailure(m, exc_type) ==
    exc_type # NoExc \/ ~Truthy(m.start_context)

\* faulty variant: the missing baseline context is not tested
ExitReturnsEarly_OnlyException(m, exc_type) == IsInstanceOfException(exc_type)

ExitReturnsEarly(m, exc_type) ==
    IsInstanceOfException(exc_type) \/ ~Truthy(m.start_context)

Duration(m) == clock - m.start

BlockTimerAmount(duration) == Num(duration)

\* faulty variant: only the absence of a context is taken for a change
ContextChanged_OnlyAbsent(context, m) == ~Truthy(context)

\* faulty variant: only another context counts as a change, none does not
ContextChanged_OnlyPresent(context, m) ==
    Truthy(context) /\ context # m.start_context

ContextChanged(context, m) == context # m.start_context

\* which way __exit__ leaves
ExitPath(m, exc_type, context) ==
    IF ExitReturnsEarly(m, exc_type) THEN "noop"
    ELSE IF ContextChanged(context, m) THEN "mismatch"
    ELSE IF ~Truthy(context) THEN "absent"
    ELSE "stable"

\* faulty variant: block_count and block_time_seconds updated after the context checks
Counts_AfterChecks(path) == path = "stable"

\* block_count and block_time_seconds are updated before the context checks
Counts(path) == path # "noop"

\* faulty variant: the mismatch branch returns a true value
ExitReturnValue_Suppress(path) == path = "mismatch"

\* what __exit__ returns to the with statement: None on every path
ExitReturnValue(path) == FALSE

\* what __exit__ raises itself: a read of a slot that was never set
ExitRaises(m, path) ==
    IF path # "noop" /\ m.start = Unset THEN InstanceOf("TypeError")
    ELSE IF path = "stable" /\ m.ru_utime = Unset THEN InstanceOf("AttributeError")
    ELSE NoExc

\* faulty variant: the owned context is exited before the context checks
TearsDown_BeforeChecks(m, path) == path # "noop" /\ m.created_context

\* faulty variant: the context is exited whether or not the block created it
TearsDown_Borrowed(m, path) == path = "stable"

\* faulty variant: the context the block created is left entered
TearsDown_Never(m, path) == FALSE

TearsDown(m, path) == path = "stable" /\ m.created_context

UtimeDelta(ctx, m) == get_resource_usage(ctx)[1] - m.ru_utime
\* faulty variant: the snapshot and the current total are subtracted the wrong way round
StimeDelta_Reversed(ctx, m) == m.ru_stime - get_resource_usage(ctx)[2]

StimeDelta(ctx, m) == get_resource_usage(ctx)[2] - m.ru_stime
TxnCountDelta(ctx, m) == Num(ctx.db_txn_count - m.db_txn_count)
\* faulty variant: the transaction time is not converted to seconds
TxnDurationDelta_NoDivide(ctx, m) ==
    Num(ctx.db_txn_duration_ms - m.db_txn_duration_ms)

TxnDurationDelta(ctx, m) ==
    DivideBy1000(Num(ctx.db_txn_duration_ms - m.db_txn_duration_ms))
SchedDurationDelta(ctx, m) ==
    DivideBy1000(Num(ctx.db_sched_duration_ms - m.db_sched_duration_ms))

\* the with statement: a failure of __exit__ replaces the one of the body; a
\* true return value suppresses the body's; otherwise the body's is re-raised
WithPropagates(exc, returned, raised) ==
    IF raised # NoExc THEN raised
    ELSE IF returned THEN NoExc
    ELSE exc

\* what the wrapped method's Deferred ends with: a result or a failure
Outcomes == {[kind |-> "value", v |-> r] : r \in Results}
            \cup {[kind |-> "failure", v |-> c] : c \in ExcClasses}

\* the wrapped method's Deferred was cancelled
Cancelled == [kind |-> "failure", v |-> "CancelledError"]

FailureOf(o) == IF o.kind = "failure" THEN InstanceOf(o.v) ELSE NoExc

\* faulty variant: the result is not handed to defer.returnValue
MeasuredFuncResult_NoReturnValue(o, propagated) ==
    IF propagated # NoExc THEN [kind |-> "failure", v |-> propagated.cls]
    ELSE [kind |-> "value", v |-> "None"]

\* what measured_func's own Deferred ends with: the failure that leaves the
\* with statement, else defer.returnValue(r)
MeasuredFuncResult(o, propagated) ==
    IF propagated # NoExc THEN [kind |-> "failure", v |-> propagated.cls]
    ELSE IF o.kind = "value" THEN o
    ELSE [kind |-> "failure", v |-> "UnboundLocalError"]

\* one more released block, with the work its context was charged and the
\* time that passed while it was open
Attribute(a, w) ==
    [blocks |-> a.blocks + 1, ticks |-> a.ticks + w.ticks,
     ru_utime |-> a.ru_utime + w.ru_utime, ru_stime |-> a.ru_stime + w.ru_stime,
     db_txn_count |-> a.db_txn_count + w.db_txn_count,
     db_txn_duration_ms |-> a.db_txn_duration_ms + w.db_txn_duration_ms,
     db_sched_duration_ms |-> a.db_sched_duration_ms + w.db_sched_duration_ms]

\* faulty variant: every block reports under one fixed label
Label_Fixed(m) == "a"

\* the label under which __exit__ updates the counters: self.name
Label(m) == m.name

\* outcome: what the wrapped method ended with, under measure_func
ExitEffect(b, exc, outcome) ==
    LET m == measure[b]
        context == current
        path == ExitPath(m, TypeOf(exc), context)
        n == Label(m)
        ctx == contexts[context]
        raised == ExitRaises(m, path)
    IN /\ block_counter' = IF Counts(path) THEN inc(block_counter, n) ELSE block_counter
       /\ block_timer' = IF Counts(path)
                         THEN inc_by(block_timer, BlockTimerAmount(Duration(m)), n)
                         ELSE block_timer
       /\ warnings' = IF path = "mismatch"
                      THEN Append(warnings, [msg |-> "Context has unexpectedly changed",
                                             name |-> n])
                      ELSE IF path = "absent"
                      THEN Append(warnings, [msg |-> "Expected context.", name |-> n])
                      ELSE warnings
       /\ IF path = "stable"
          THEN /\ block_ru_utime' = inc_by(block_ru_utime, UtimeDelta(ctx, m), n)
               /\ block_ru_stime' = inc_by(block_ru_stime, StimeDelta(ctx, m), n)
               /\ block_db_txn_count' = inc_by(block_db_txn_count, TxnCountDelta(ctx, m), n)
               /\ block_db_txn_duration' =
                      inc_by(block_db_txn_duration, TxnDurationDelta(ctx, m), n)
               /\ block_db_sched_duration' =
                      inc_by(block_db_sched_duration, SchedDurationDelta(ctx, m), n)
          ELSE UNCHANGED <<block_ru_utime, block_ru_stime, block_db_txn_count,
                           block_db_txn_duration, block_db_sched_duration>>
       /\ IF TearsDown(m, path)
          THEN /\ contexts' = LoggingContextExit(contexts, m.start_context)
               /\ current' = contexts[m.start_context].previous
          ELSE UNCHANGED <<contexts, current>>
       /\ measure' = [measure EXCEPT ![b] = Released]
       /\ work' = [work EXCEPT ![b] = NoWork]
       /\ attributed' = IF Open(b) THEN [attributed EXCEPT ![n] = Attribute(@, work[b])]
                        ELSE attributed
       /\ last' = [NoLast EXCEPT
                      !.op = "exit", !.block = b, !.name = n, !.context = context,
                      !.start_context = m.start_context,
                      !.created_context = m.created_context, !.exc = exc,
                      !.path = path,
                      !.duration = IF Counts(path) THEN Duration(m) ELSE 0,
                      !.returned = ExitReturnValue(path), !.raised = raised,
                      !.propagated = WithPropagates(exc, ExitReturnValue(path), raised),
                      !.suspended = calls[b].pc = "suspended",
                      !.outcome = outcome,
                      !.delivered = IF outcome = NoOutcome THEN NoOutcome
                                    ELSE MeasuredFuncResult(outcome,
                                             WithPropagates(exc, ExitReturnValue(path), raised))]

\* ---- a Measure used directly --------------------------------------------
FreeBlock(b) ==
    /\ measure[b].pc = "none"
    /\ \A d \in BlockIds : measure[d].pc = "none" => b <= d

Construct(b, n) ==
    /\ FreeBlock(b)
    /\ measure' = [measure EXCEPT ![b] = MeasureInit(n)]
    /\ last' = NoLast
    /\ UNCHANGED <<clock, current, contexts, counterVars, warnings, calls, work, attributed>>

Enter(b) ==
    /\ measure[b].pc = "constructed"
    /\ ~OwnedByCall(b)
    /\ EnterEffect(b, measure[b])
    /\ UNCHANGED <<clock, counterVars, warnings, calls, attributed>>

\* the scope is left, normally (exc = NoExc) or by a failure of the wrapped
\* work; also __exit__ on a block that was never entered
Exit(b, exc) ==
    /\ measure[b].pc \in {"constructed", "entered"}
    /\ ~OwnedByCall(b)
    /\ ExitEffect(b, exc, NoOutcome)
    /\ UNCHANGED <<clock, calls>>

\* ---- measure_func -------------------------------------------------------
\* measured_func is called: the Measure is constructed and entered, then func
\* is called and runs up to its first suspension point
Invoke(b, n) ==
    /\ FreeBlock(b)
    /\ EnterEffect(b, MeasureInit(n))
    /\ calls' = [calls EXCEPT ![b] = [@ EXCEPT !.pc = "running", !.blocks = @ \cup {b}]]
    /\ UNCHANGED <<clock, counterVars, warnings, attributed>>

\* the generator goes on after the yield with the outcome o: the with
\* statement is left, and measured_func's Deferred fires
Settle(b, o) ==
    /\ ExitEffect(b, FailureOf(o), o)
    /\ calls' = [calls EXCEPT ![b].pc = "done"]
    /\ UNCHANGED clock

\* func raises, returns a plain value or returns a Deferred that has fired:
\* the yield does not suspend
FuncCompletes(b, o) ==
    /\ calls[b].pc = "running"
    /\ Settle(b, o)

\* func returns a Deferred that has not fired: measured_func is suspended
FuncSuspends(b) ==
    /\ calls[b].pc = "running"
    /\ calls' = [calls EXCEPT ![b].pc = "suspended"]
    /\ last' = NoLast
    /\ UNCHANGED <<clock, current, contexts, measure, counterVars, warnings, work,
                   attributed>>

\* the Deferred fires: measured_func is resumed with its result or failure
DeferredFires(b, o) ==
    /\ calls[b].pc = "suspended"
    /\ Settle(b, o)

\* ---- specifications -----------------------------------------------------
\* the clock, the scheduler and the work inside the blocks
Environment ==
    \/ Tick
    \/ \E c \in ContextIds \cup {None} : SwitchContext(c)
    \/ \E w \in WorkKinds : Grow(w)

\* Measure used directly, as "with Measure(clock, name):"
Next ==
    \/ Environment
    \/ \E b \in BlockIds, n \in Names : Construct(b, n)
    \/ \E b \in BlockIds : Enter(b)
    \/ \E b \in BlockIds, exc \in BodyFailures \cup {NoExc} : Exit(b, exc)

Spec == Init /\ [][Next]_vars

\* Measure used through measure_func
NextFunc ==
    \/ Environment
    \/ \E b \in BlockIds, n \in WrappedNames : Invoke(b, n)
    \/ \E b \in BlockIds, o \in Outcomes : FuncCompletes(b, o)
    \/ \E b \in BlockIds : FuncSuspends(b)
    \/ \E b \in BlockIds, o \in Outcomes : DeferredFires(b, o)

SpecFunc == Init /\ [][NextFunc]_vars

\* Measure blocks on different logical tasks, interleaved on the one thread by
\* a scheduler that does its job: a task runs, and so acquires, is charged work
\* and releases, under its own context only (or under none, if it has none
\* until its block makes one)
OtherTask(b) ==
    \A d \in BlockIds \ {b} : Open(d) => measure[d].start_context # current

TaskEnter(b) == OtherTask(b) /\ Enter(b)

TaskExit(b, exc) ==
    /\ Open(b)
    /\ current = measure[b].start_context
    /\ Exit(b, exc)

NextTasks ==
    \/ Environment
    \/ \E b \in BlockIds, n \in Names : Construct(b, n)
    \/ \E b \in BlockIds : TaskEnter(b)
    \/ \E b \in BlockIds, exc \in BodyFailures \cup {NoExc} : TaskExit(b, exc)

InitTasks == InitWith(MaxBlocks + 1)

SpecTasks == InitTasks /\ [][NextTasks]_vars

\* with statements nested in one another: a block is acquired inside the
\* scopes of the blocks before it and released before them
InnerMost(b) == \A d \in BlockIds : d > b => ~Open(d)

\* "with Measure(clock, n):" constructs the block where it is acquired
NestedConstruct(b, n) ==
    /\ \A d \in BlockIds : d < b => Open(d)
    /\ Construct(b, n)

NestedEnter(b) ==
    /\ \A d \in BlockIds : d < b => Open(d)
    /\ Enter(b)

NestedExit(b, exc) ==
    /\ Open(b)
    /\ InnerMost(b)
    /\ Exit(b, exc)

\* the clock stands still here: the time counter is the subject of Spec
NextNested ==
    \/ \E c \in ContextIds \cup {None} : SwitchContext(c)
    \/ \E w \in WorkKinds : Grow(w)
    \/ \E b \in BlockIds, n \in Names : NestedConstruct(b, n)
    \/ \E b \in BlockIds : NestedEnter(b)
    \/ \E b \in BlockIds, exc \in BodyFailures \cup {NoExc} : NestedExit(b, exc)

InitNested == InitWith(MaxBlocks + 1)

SpecNested == InitNested /\ [][NextNested]_vars

\* ---- properties ---------------------------------------------------------
\* this step is the Release of block b, whose Acquire had completed
Releases(b) == Open(b) /\ measure'[b].pc = "exited"

\* this step is the Acquire of block b
Acquires(b) == measure[b].pc = "constructed" /\ measure'[b].pc = "entered"

ContextCounters == <<block_ru_utime, block_ru_stime, block_db_txn_count,
                     block_db_txn_duration, block_db_sched_duration>>

\* C1: every Release that follows a completed Acquire of a block named n adds
\* exactly 1 to block_count[n], whatever context is active at that Release
\* (the baseline one, another one, none) and whether or not the work failed.
C1_CountOncePerCycle ==
    [][\A b \in BlockIds :
          Releases(b) =>
              block_counter'[measure[b].name] = block_counter[measure[b].name] + Num(1)]_vars

\* a failed block was released with no context active, and was counted
C1_Witness ==
    /\ last.op = "exit"
    /\ last.exc # NoExc
    /\ Truthy(last.start_context) /\ ~Truthy(last.context)
    /\ block_counter[last.name] = Num(1)

\* C2: a Release D ms after the Acquire adds D/1000 (seconds) to
\* block_time_seconds[n], whatever the context.
C2_TimeInSeconds ==
    [][\A b \in BlockIds :
          Releases(b) =>
              block_timer'[measure[b].name] =
                  block_timer[measure[b].name] + DivideBy1000(Num(work[b].ticks))]_vars

\* C3: when the context active at Release is not the one captured at Acquire,
\* none of the five context-derived counters changes under any name, while
\* block_count and block_time_seconds of the block's name are still added to.
C3_MismatchSkipsContextCounters ==
    [][\A b \in BlockIds :
          Releases(b) /\ current # measure[b].start_context =>
              LET n == measure[b].name
              IN /\ UNCHANGED ContextCounters
                 /\ block_counter'[n] = block_counter[n] + Num(1)
                 /\ block_timer'[n] >= block_timer[n]
                 /\ work[b].ticks > 0 => block_timer'[n] > block_timer[n]]_vars

\* a block whose context had been charged work was released after some time
\* under another context: counted and timed, the work not attributed
C3_Witness ==
    /\ last.op = "exit"
    /\ Truthy(last.context) /\ last.context # last.start_context
    /\ last.duration > 0
    /\ contexts[last.start_context].db_txn_count > 0
    /\ block_counter[last.name] = Num(1) /\ block_timer[last.name] > 0
    /\ block_db_txn_count[last.name] = 0

\* C4: when the context active at Release is the one captured at Acquire, each
\* context-derived counter of the block's name grows by exactly what that
\* context's running total grew by since the Acquire: CPU user and system time,
\* the transaction count, and the transaction and scheduling times as ms/1000.
C4_StableAddsDeltas ==
    [][\A b \in BlockIds :
          Releases(b) /\ current = measure[b].start_context =>
              LET n == measure[b].name
                  w == work[b]
              IN /\ block_ru_utime'[n] = block_ru_utime[n] + w.ru_utime
                 /\ block_ru_stime'[n] = block_ru_stime[n] + w.ru_stime
                 /\ block_db_txn_count'[n] = block_db_txn_count[n] + Num(w.db_txn_count)
                 /\ block_db_txn_duration'[n] =
                        block_db_txn_duration[n] + (w.db_txn_duration_ms * MsPerSecond) \div 1000
                 /\ block_db_sched_duration'[n] =
                        block_db_sched_duration[n]
                            + (w.db_sched_duration_ms * MsPerSecond) \div 1000]_vars

\* a block was released under its own context after a database transaction
C4_Witness ==
    /\ last.op = "exit"
    /\ last.path = "stable"
    /\ block_db_txn_count[last.name] = Num(1)
    /\ block_db_txn_duration[last.name] > 0
    /\ block_db_sched_duration[last.name] > 0

\* C5: a block acquired while no context is active creates a new context and
\* enters it; that context is torn down (once) by a Release under which it is
\* still the active one, and left alone by a Release under which another
\* context, or none, is active; no context is ever torn down twice.
C5_OwnedContextTornDownOnce ==
    /\ [][\A b \in BlockIds :
             /\ Acquires(b) /\ ~Truthy(current) =>
                   LET c == measure'[b].start_context
                   IN /\ Truthy(c)
                      /\ contexts[c].state = "unused"
                      /\ contexts'[c].state = "entered"
                      /\ current' = c
                      /\ measure'[b].created_context
             /\ Releases(b) /\ measure[b].created_context =>
                   LET c == measure[b].start_context
                   IN IF current = c
                      THEN /\ contexts[c].exits = 0
                           /\ contexts'[c].exits = 1
                           /\ contexts'[c].state = "exited"
                      ELSE /\ contexts'[c] = contexts[c]
                           /\ contexts[c].exits = 0
                           /\ contexts[c].state = "entered"]_vars
    /\ [](\A c \in ContextIds : contexts[c].exits <= 1)

\* a block that created its context was released under it: torn down, once
C5_Witness ==
    /\ last.op = "exit"
    /\ last.created_context
    /\ last.context = last.start_context
    /\ contexts[last.start_context].name = "Measure"
    /\ contexts[last.start_context].state = "exited"
    /\ contexts[last.start_context].exits = 1

\* C6: created_context is set only by an Acquire under which no context was
\* active, and it then marks a context Measure made; the Release of a block
\* that borrowed its context tears no context down and leaves the active
\* context as it is, on every path and whether or not the work failed.
C6_BorrowedNeverTornDown ==
    /\ [][\A b \in BlockIds :
             /\ measure'[b].created_context /\ ~measure[b].created_context =>
                   Acquires(b) /\ ~Truthy(current)
             /\ Releases(b) /\ ~measure[b].created_context =>
                   UNCHANGED <<contexts, current>>]_vars
    /\ [](\A b \in BlockIds :
             Open(b) /\ measure[b].created_context =>
                 contexts[measure[b].start_context].name = "Measure")

\* a block that borrowed a task's context was released under it after its
\* work had failed: the context is still entered and active
C6_Witness ==
    /\ last.op = "exit"
    /\ ~last.created_context
    /\ last.exc # NoExc
    /\ last.path = "stable"
    /\ last.start_context \in TaskContexts
    /\ contexts[last.start_context].state = "entered"
    /\ contexts[last.start_context].exits = 0
    /\ current = last.start_context

\* C7: when the wrapped work fails, the Release adds 1 to block_count of the
\* block's name, and the failure then propagates to the caller.
C7_FailureStillCounted ==
    [][\A b \in BlockIds :
          Releases(b) /\ last'.exc # NoExc =>
              /\ block_counter'[measure[b].name] = block_counter[measure[b].name] + Num(1)
              /\ last'.propagated = last'.exc]_vars

\* the work of a block failed: the block is counted and the failure propagated
C7_Witness ==
    /\ last.op = "exit"
    /\ last.exc \in BodyFailures
    /\ last.path # "noop"
    /\ block_counter[last.name] = Num(1)
    /\ last.propagated = last.exc

\* C8: a Release under a context other than the baseline one, or under none,
\* logs one warning and raises nothing; and every Release lets the failure of
\* the wrapped work, if any, through unchanged: not suppressed, not replaced.
C8_WarningsNotRaised ==
    [][\A b \in BlockIds :
          Releases(b) =>
              /\ last'.raised = NoExc
              /\ last'.propagated = last'.exc
              /\ current # measure[b].start_context =>
                    /\ Len(warnings') = Len(warnings) + 1
                    /\ warnings'[Len(warnings')].name = measure[b].name
                    /\ SubSeq(warnings', 1, Len(warnings)) = warnings]_vars

\* a failed block was released under another context: one warning, and the
\* failure of the work propagated
C8_Witness ==
    /\ last.op = "exit"
    /\ last.path = "mismatch"
    /\ last.exc # NoExc
    /\ last.propagated = last.exc
    /\ last.raised = NoExc
    /\ Len(warnings) = 1

\* C9: blocks of one name on different logical tasks, interleaved, each task
\* under its own context: once they are all released, every counter of that
\* name has grown by the sum of what the single blocks saw: one per block,
\* their durations in seconds, and the work charged to their own contexts.
C9_TotalsAreSums ==
    (\A b \in BlockIds : ~Open(b)) =>
        \A n \in Names :
            LET a == attributed[n]
            IN /\ block_counter[n] = Num(a.blocks)
               /\ block_timer[n] = (a.ticks * MsPerSecond) \div 1000
               /\ block_ru_utime[n] = a.ru_utime
               /\ block_ru_stime[n] = a.ru_stime
               /\ block_db_txn_count[n] = Num(a.db_txn_count)
               /\ block_db_txn_duration[n] = (a.db_txn_duration_ms * MsPerSecond) \div 1000
               /\ block_db_sched_duration[n] =
                      (a.db_sched_duration_ms * MsPerSecond) \div 1000

\* C9 without block_time_seconds, whose amounts are C2's: the other six
\* counters are the sums, at every moment, over the blocks released so far
C9_TotalsAreSumsApartFromTime ==
    \A n \in Names :
        LET a == attributed[n]
        IN /\ block_counter[n] = Num(a.blocks)
           /\ block_ru_utime[n] = a.ru_utime
           /\ block_ru_stime[n] = a.ru_stime
           /\ block_db_txn_count[n] = Num(a.db_txn_count)
           /\ block_db_txn_duration[n] = (a.db_txn_duration_ms * MsPerSecond) \div 1000
           /\ block_db_sched_duration[n] = (a.db_sched_duration_ms * MsPerSecond) \div 1000

\* two blocks of one name, each under its own context, were open at once
C9_Interleaved ==
    \E b, d \in BlockIds :
        /\ b # d /\ Open(b) /\ Open(d)
        /\ measure[b].name = measure[d].name
        /\ measure[b].start_context # measure[d].start_context

\* C10: an invocation of a method wrapped by measure_func uses exactly one
\* Measure; the block is acquired before the method's first suspension point
\* (it is open whenever the invocation runs or is suspended) and released only
\* once the method's result or failure is determined, on every path; and the
\* caller receives that very result or failure.
C10_OneBlockAroundTheCall ==
    /\ \A b \in BlockIds :
          /\ calls[b].pc # "idle" => calls[b].blocks = {b}
          /\ calls[b].pc \in {"running", "suspended"} => Open(b)
          /\ measure[b].pc = "exited" <=> calls[b].pc = "done"
    /\ last.op = "exit" =>
          /\ last.outcome \in Outcomes
          /\ calls[last.block].pc = "done"
          /\ last.delivered = last.outcome

\* the wrapped method was suspended and then failed: the block was released
\* at that point and the caller received the failure
C10_Witness ==
    /\ last.op = "exit"
    /\ last.suspended
    /\ last.outcome.kind = "failure"
    /\ last.exc = InstanceOf(last.outcome.v)
    /\ last.delivered = last.outcome
    /\ block_counter[last.name] = Num(1)

\* C11: when the wrapped work is cancelled after the Acquire, the generator
\* is resumed with the cancellation and the Release runs in that very step,
\* under whatever context is then active: the block is counted; under the
\* baseline context the context-derived counters are updated and nothing is
\* logged, under another context or none they are left alone, one warning is
\* logged and no context is torn down, as on a normal exit; the cancellation
\* reaches the caller.
C11_CancelledStillReleased ==
    [][\A b \in BlockIds :
          calls[b].pc \in {"running", "suspended"} /\ calls'[b].pc = "done"
          /\ last'.outcome = Cancelled =>
              LET n == measure[b].name
              IN /\ Releases(b)
                 /\ last'.context = current
                 /\ block_counter'[n] = block_counter[n] + Num(1)
                 /\ last'.delivered = Cancelled
                 /\ IF current = measure[b].start_context
                    THEN /\ warnings' = warnings
                         /\ block_db_txn_count'[n] =
                                block_db_txn_count[n] + Num(work[b].db_txn_count)
                         /\ block_ru_stime'[n] = block_ru_stime[n] + work[b].ru_stime
                    ELSE /\ Len(warnings') = Len(warnings) + 1
                         /\ UNCHANGED ContextCounters
                         /\ UNCHANGED <<contexts, current>>]_vars

\* a suspended invocation was cancelled while another context was active: the
\* block was released and counted, with the mismatch warning
C11_Witness ==
    /\ last.op = "exit"
    /\ last.outcome = Cancelled
    /\ last.suspended
    /\ Truthy(last.context) /\ last.context # last.start_context
    /\ block_counter[last.name] = Num(1)
    /\ Len(warnings) = 1

\* C12: with a clock that does not go back and context totals that only grow,
\* no step of any kind (Acquire, context switch, growth of a total, Release)
\* lowers any of the seven counters under any block name.
C12_CountersNeverDecrease ==
    [][\A n \in Names :
          /\ block_counter'[n] >= block_counter[n]
          /\ block_timer'[n] >= block_timer[n]
          /\ block_ru_utime'[n] >= block_ru_utime[n]
          /\ block_ru_stime'[n] >= block_ru_stime[n]
          /\ block_db_txn_count'[n] >= block_db_txn_count[n]
          /\ block_db_txn_duration'[n] >= block_db_txn_duration[n]
          /\ block_db_sched_duration'[n] >= block_db_sched_duration[n]]_vars

\* a block was released under its baseline context after that context's
\* system CPU total had grown, so a positive amount went into its counter
C12_Witness ==
    /\ last.op = "exit"
    /\ last.path = "stable"
    /\ block_ru_stime[last.name] > 0
    /\ block_counter[last.name] = Num(1)

\* C13: an Acquire changes no counter at all, and the Release of a block
\* named n leaves all seven counters under every other name unchanged.
C13_OtherNamesUntouched ==
    [][\A b \in BlockIds :
          /\ Acquires(b) => UNCHANGED counterVars
          /\ Releases(b) =>
                \A other \in Names \ {measure[b].name} :
                    /\ block_counter'[other] = block_counter[other]
                    /\ block_timer'[other] = block_timer[other]
                    /\ block_ru_utime'[other] = block_ru_utime[other]
                    /\ block_ru_stime'[other] = block_ru_stime[other]
                    /\ block_db_txn_count'[other] = block_db_txn_count[other]
                    /\ block_db_txn_duration'[other] = block_db_txn_duration[other]
                    /\ block_db_sched_duration'[other] =
                           block_db_sched_duration[other]]_vars

\* a block named "b" was released under its baseline context with time passed
\* and transactions charged: its own counters moved, those named "a" are zero
C13_Witness ==
    /\ last.op = "exit"
    /\ last.name = "b"
    /\ last.path = "stable"
    /\ block_counter["b"] = Num(1)
    /\ block_timer["b"] > 0
    /\ block_db_txn_count["b"] > 0
    /\ block_counter["a"] = 0
    /\ block_timer["a"] = 0
    /\ block_db_txn_count["a"] = 0

\* C14: a Release of a block that was constructed but never acquired (no
\* baseline context recorded) changes no counter under any name, logs no
\* warning, leaves the active context as it is, tears no context down and
\* raises nothing.
C14_ReleaseWithoutAcquireIsNoop ==
    [][\A b \in BlockIds :
          measure[b].pc = "constructed" /\ last'.op = "exit" /\ last'.block = b =>
              /\ ~Truthy(measure[b].start_context)
              /\ UNCHANGED counterVars
              /\ UNCHANGED warnings
              /\ UNCHANGED <<current, contexts>>
              /\ last'.path = "noop"
              /\ last'.raised = NoExc]_vars

\* a never-acquired block was released while a task's context was active:
\* nothing was counted or logged and that context is still entered and active
C14_Witness ==
    /\ last.op = "exit"
    /\ last.path = "noop"
    /\ ~Truthy(last.start_context)
    /\ Truthy(current) /\ last.context = current
    /\ contexts[current].state = "entered"
    /\ \A n \in Names : block_counter[n] = 0
    /\ warnings = <<>>

\* C15: an acquired block always has a baseline context; a Release that finds
\* no active context leaves by the mismatch branch, with its warning; the
\* "Expected context." branch is never taken and its warning never logged.
C15_AbsentBranchUnreachable ==
    /\ \A b \in BlockIds : Open(b) => Truthy(measure[b].start_context)
    /\ last.op = "exit" =>
          /\ last.path # "absent"
          /\ last.path # "noop" /\ ~Truthy(last.context) =>
                /\ last.path = "mismatch"
                /\ Len(warnings) > 0
                /\ warnings[Len(warnings)] =
                       [msg |-> "Context has unexpectedly changed", name |-> last.name]
    /\ \A i \in 1..Len(warnings) : warnings[i].msg # "Expected context."

\* an acquired block was released while no context was active
C15_Witness ==
    /\ last.op = "exit"
    /\ Truthy(last.start_context)
    /\ ~Truthy(last.context)
    /\ last.path = "mismatch"
    /\ Len(warnings) = 1

\* C16: an Acquire under no context creates one, marks it as created and makes
\* it active; an Acquire under a context borrows it and leaves it active. A
\* Release under the baseline context then puts the ambient context back to
\* what it was before the Acquire: none if the block created its context,
\* the same borrowed context otherwise.
C16_AmbientContextRestored ==
    [][\A b \in BlockIds :
          /\ Acquires(b) =>
                /\ measure'[b].created_context = ~Truthy(current)
                /\ current' = measure'[b].start_context
                /\ Truthy(current) => current' = current
          /\ Releases(b) /\ current = measure[b].start_context =>
                current' = IF measure[b].created_context THEN None
                           ELSE measure[b].start_context]_vars

\* a block that created its context was released under it: no context is
\* active any more and the created context was exited once
C16_Witness ==
    /\ last.op = "exit"
    /\ last.created_context
    /\ last.path = "stable"
    /\ last.context = last.start_context
    /\ current = None
    /\ contexts[last.start_context].exits = 1

\* C17: while an outer block that created its context is open, a block
\* acquired under that context borrows it and creates none; the inner block's
\* Release leaves that context entered and active and the outer block as it
\* was; the outer block's Release under its context then adds what the
\* context was charged since the outer Acquire, the inner block's share
\* included, to the context-derived counters and exits the context, once.
C17_NestedBorrowsOuterContext ==
    [][\A outer \in BlockIds :
          Open(outer) /\ measure[outer].created_context =>
              LET c == measure[outer].start_context
                  n == measure[outer].name
              IN /\ contexts[c].state = "entered" /\ contexts[c].exits = 0
                 /\ \A inner \in BlockIds \ {outer} :
                       /\ Acquires(inner) /\ current = c =>
                             /\ measure'[inner].start_context = c
                             /\ ~measure'[inner].created_context
                             /\ UNCHANGED <<contexts, current>>
                       /\ Releases(inner) /\ measure[inner].start_context = c =>
                             /\ UNCHANGED <<contexts, current>>
                             /\ measure'[outer] = measure[outer]
                 /\ Releases(outer) /\ current = c =>
                       /\ last'.path = "stable"
                       /\ block_ru_stime'[n] = block_ru_stime[n] + work[outer].ru_stime
                       /\ block_db_txn_count'[n] =
                              block_db_txn_count[n] + Num(work[outer].db_txn_count)
                       /\ contexts'[c].state = "exited"
                       /\ contexts'[c].exits = 1
                       /\ current' = None]_vars

\* the outer block, named "a", created its context; the inner one, named "b",
\* was acquired and released inside it without creating or exiting a context;
\* the outer one was then released under its context, which had been charged
\* work: both blocks are counted, the work is in the outer block's counter
\* and the context was exited once
C17_Witness ==
    /\ last.op = "exit"
    /\ last.block = 1
    /\ last.name = "a"
    /\ last.created_context
    /\ last.path = "stable"
    /\ measure[2].pc = "exited"
    /\ block_counter["b"] = Num(1)
    /\ block_counter["a"] = Num(1)
    /\ contexts[OwnContext(2)].state = "unused"
    /\ contexts[OwnContext(1)].exits = 1
    /\ block_ru_stime["a"] + block_db_txn_count["a"] > 0
    /\ warnings = <<>>

====
